---- MODULE Spec2Model ----
(***************************************************************************)
(* The `rm` pipeline of the object-storage client: removeRecursive and     *)
(* removeSingle (rm-main.go) running against a backend Client (client.go). *)
(*                                                                         *)
(* Three tasks take part in one recursive removal:                         *)
(*   - the feed loop of removeRecursive itself,                            *)
(*   - the listing producer behind Client.List,                            *)
(*   - the removal task behind Client.Remove, which reads the feed channel *)
(*     contentCh and writes the failure channel errorCh.                   *)
(* contentCh of removeRecursive is unbuffered, so a send is one step       *)
(* shared by the feed loop and the removal task; the same holds for        *)
(* errorCh.  contentCh of removeSingle has capacity one.                   *)
(*                                                                         *)
(* Times are modelled as ages in days (now - content.Time); NoTime is the  *)
(* zero time.Time.  A cutoff flag is a number of days, Unset the empty     *)
(* string.                                                                 *)
(***************************************************************************)
EXTENDS Integers, Sequences, FiniteSets, TLC

\* Longest listing the backend returns for the target.
MaxLen == 2
\* Oldest object age, in days.
MaxAge == 3

NoTime == 0
Unset == 0

Ages == 1..MaxAge
\* The values of --older-than / --newer-than: unset, or a cutoff that has
\* ages on both sides of it.
Cutoffs == {Unset, MaxAge - 1}

\* What the listing delivers: an in-band failure (content.Err), a prefix
\* level entry without a timestamp, or an object of some age.
EntryKinds ==
    { [err |-> "perm", age |-> NoTime], [err |-> "other", age |-> NoTime] }
    \cup { [err |-> "none", age |-> a] : a \in {NoTime} \cup Ages }

Listings == UNION { [1..n -> EntryKinds] : n \in 0..MaxLen }

VARIABLES
    listing,      \* what Client.List yields for the target, in backend order
    olderThan,    \* --older-than
    newerThan,    \* --newer-than
    tieSkip,      \* whether an age equal to the cutoff counts as filtered
    clientOK,     \* newClientFromAlias succeeds for the target's alias
    isRecursive,  \* --recursive
    isForce,      \* --force
    deleted,      \* backend state: ids of the objects the backend removed
    phase,        \* "first" invocation, or the "second" one after a dry run
    prevReport,   \* what the preceding dry run did and reported
    op,           \* "none", "recursive" or "single"
    isFake,       \* --fake
    pc,           \* position of removeRecursive / removeSingle
    result,       \* "none", "ok" (nil) or "err" (globalErrorExitStatus)
    statKind,     \* what statURL answered in removeSingle, "none" before
    otherSeen,    \* a failure other than insufficient-permission was handled
    runList,      \* the listing of this run, each entry with its id
    listIdx,      \* next entry the listing producer emits
    pending,      \* id of the descriptor the select is trying to send, or 0
    retried,      \* ids whose send was pending when a failure was ignored
    chMade,       \* contentCh was created
    chBuf,        \* buffered content of contentCh (removeSingle)
    chCloses,     \* number of close(contentCh) executed
    chSendClosed, \* a send on contentCh happened after it was closed
    rm_pc,        \* removal task: "idle", "recv", "emit" or "closed"
    rmQueue,      \* failures the backend holds and has not yet emitted
    reported,     \* ids printed by printMsg, in order
    sent,         \* ids handed to contentCh, in order
    ctxCancelled  \* globalContext was cancelled while the run was going on

\* mainRm and checkRmSyntax
VARIABLES
    isStdin,      \* --stdin
    isDangerous,  \* --dangerous
    args,         \* cliCtx.Args(): the targets on the command line
    stdinLines,   \* the targets read from os.Stdin
    mpc,          \* mainRm: "check", "args", "stdin", "exit", "fatal", "help"
    nextArg,      \* next target of the loop mainRm is in
    rerr,         \* "ok" (nil) or "err": the first failure of a target
    started       \* the calls of removeSingle / removeRecursive: url and result

cmd == <<isStdin, isDangerous, args, stdinLines, mpc, nextArg, rerr, started>>

\* uploadSourceToTargetURL
VARIABLES
    urls,         \* the URLs argument: aliases, contents and their metadata
    stored,       \* the metadata the backend holds for the source object
    upc,          \* "idle", "start", "merge", "retain", "copy", "get", "put", "done"
    metadata,     \* the local map of the same name
    calls,        \* the backend calls issued, in order, with their metadata
    uerr,         \* "none", "nil", or the step whose failure is returned
    reader,       \* the source stream: "none", "open" or "closed"
    failed,       \* the steps that have failed: validations, clients, calls
    readerType    \* what the reader of the source is: its type and name

upload == <<urls, stored, upc, metadata, calls, uerr, reader, failed,
            readerType>>

\* isAliasURLDir
VARIABLES
    aliasURL,     \* the address, as the characters the caller wrote
    expands,      \* mustExpandAlias finds an alias at the head of the address
    urlStat,      \* what url2Stat finds: "none" (an error), "dir" or "file"
    dpc,          \* "idle", "call" or "done"
    isDir         \* the value returned

\* getEncKeys and getDecodedKey
VARIABLES
    entries,      \* the entries the user means: prefix, key and how it is written
    sseKeys,      \* the key list of --encrypt-key or OSS_ENCRYPT_KEY, as bytes
    kpc,          \* "idle", "call" or "done"
    keyString,    \* the decoded key list getDecodedKey returns
    kerr          \* the error returned: its message and its trace

dirv == <<aliasURL, expands, urlStat, dpc, isDir>>
keyv == <<entries, sseKeys, kpc, keyString, kerr>>
pure == <<dirv, keyv>>

inputs == <<listing, olderThan, newerThan, tieSkip, clientOK, isRecursive,
            isForce>>
chan == <<chMade, chBuf, chCloses, chSendClosed>>
remover == <<rm_pc, rmQueue>>
vars == <<listing, olderThan, newerThan, tieSkip, clientOK, isRecursive,
          isForce, deleted, phase,
          prevReport, op, isFake, pc, result, statKind, otherSeen, runList, listIdx,
          pending, retried, chMade, chBuf, chCloses, chSendClosed, rm_pc, rmQueue,
          reported, sent, ctxCancelled, cmd, upload, pure>>

----------------------------------------------------------------------------
(* Pure helpers *)

\* isOlder(content.Time, olderThan): the entry is filtered out by
\* --older-than ("remove objects older than L days"): it is younger than
\* the cutoff.
isOlder(age, ref) == age < ref \/ (age = ref /\ tieSkip)

\* isNewer(content.Time, newerThan): the entry is filtered out by
\* --newer-than ("remove objects newer than L days"): it is older than the
\* cutoff.
isNewer(age, ref) == age > ref \/ (age = ref /\ tieSkip)

SkipAllAges(age) == FALSE

SkipOnlyNewer(age) == newerThan # Unset /\ isNewer(age, newerThan)

\* The two age tests of removeRecursive / removeSingle.
SkipByAge(age) ==
    \/ (olderThan # Unset /\ isOlder(age, olderThan))
    \/ (newerThan # Unset /\ isNewer(age, newerThan))

SkipPrefixNever(age) == FALSE

\* removeRecursive skips prefix levels: entries whose Time is zero.
SkipPrefixLevel(age) == age = NoTime

IgnoredFailureNone(class) == FALSE

\* The type switch on pErr.ToGoError(): PathInsufficientPermission is
\* ignored, anything else (a nil error included) is not.
IgnoredFailure(class) == class = "perm"

CloseForgotten(n) == n

\* close(contentCh) on the two abort paths of removeRecursive.
CloseOnAbort(n) == n + 1

\* close(contentCh) after the listing loop.
CloseAtEnd(n) == n + 1

DropPending(p) == 0

\* `continue` inside `for !sent`: the select is entered again with the
\* same content.
KeepPending(p) == p

SendFirst(s, id) == <<id>> \o s

\* contentCh <- content
SendOn(s, id) == Append(s, id)

FeedsAlways(fake) == TRUE

FeedsInverted(fake) == fake

\* if !isFake { ... }
FeedsBackend(fake) == ~fake

PrintedIfReal(fake, rep, id) == IF fake THEN rep ELSE Append(rep, id)

\* printMsg(rmMessage{...}) comes before the isFake test.
Printed(fake, rep, id) == Append(rep, id)

\* The entries Client.List yields: the listing minus what was removed.
RunListOf(l, del) ==
    SelectSeq([i \in 1..Len(l) |-> [id |-> i, err |-> l[i].err, age |-> l[i].age]],
              LAMBDA e : e.id \notin del)

\* The listing channel is closed: the producer is exhausted, or its context
\* is cancelled (by the caller, or by the deferred cancel on return).
ListClosed == listIdx > Len(runList) \/ ctxCancelled \/ pc = "done"

\* The removal task takes descriptor id; the backend call succeeds ("ok")
\* or fails with a failure it will emit on errorCh.
RemoverTake(id, outcome) ==
    /\ deleted' = IF outcome = "ok" THEN deleted \cup {id} ELSE deleted
    /\ rmQueue' = IF outcome = "ok" THEN rmQueue ELSE Append(rmQueue, outcome)

\* The removal task has handed Head(rmQueue) to the reader of errorCh.  After
\* a failure that is not a permission failure it may give up and return.
RemoverEmitted(stop) ==
    IF stop /\ Head(rmQueue) # "perm"
    THEN rm_pc' = "closed" /\ rmQueue' = <<>>
    ELSE rm_pc' = "recv" /\ rmQueue' = Tail(rmQueue)

AbsentAlwaysFails(force) == "err"

\* len(contents) == 0: an error unless --force.
AbsentStatus(force) == IF force THEN "ok" ELSE "err"

Return(r) == pc' = "done" /\ result' = r

----------------------------------------------------------------------------
\* No removal is going on: the state before removeRecursive / removeSingle
\* is entered.
RunIdle ==
    /\ statKind = "none"
    /\ deleted = {}
    /\ phase = "first"
    /\ prevReport = [op |-> "none", rep |-> <<>>]
    /\ op = "none" /\ isFake = FALSE
    /\ pc = "start" /\ result = "none" /\ otherSeen = FALSE
    /\ runList = <<>> /\ listIdx = 1 /\ pending = 0 /\ retried = {}
    /\ chMade = FALSE /\ chBuf = <<>> /\ chCloses = 0 /\ chSendClosed = FALSE
    /\ rm_pc = "idle" /\ rmQueue = <<>>
    /\ reported = <<>> /\ sent = <<>>
    /\ ctxCancelled = FALSE

\* No upload is going on.
UploadIdle ==
    /\ urls = <<>> /\ stored = <<>>
    /\ upc = "idle" /\ metadata = <<>> /\ calls = <<>>
    /\ uerr = "none" /\ reader = "none" /\ failed = {}
    /\ readerType = [kind |-> "none", name |-> ""]

\* isAliasURLDir is not being called.
DirIdle ==
    /\ aliasURL = <<>> /\ expands = FALSE /\ urlStat = "none"
    /\ dpc = "idle" /\ isDir = FALSE

\* getEncKeys is not being called.
KeysIdle ==
    /\ entries = <<>> /\ sseKeys = <<>> /\ kpc = "idle" /\ keyString = <<>>
    /\ kerr = [msg |-> "nil", fields |-> <<>>]

\* mainRm is in its loop over the targets, calling one of the two functions
\* for a target.
InLoop ==
    /\ isStdin = FALSE /\ isDangerous = FALSE
    /\ args = <<>> /\ stdinLines = <<>>
    /\ mpc = "args" /\ nextArg = 1 /\ rerr = "ok" /\ started = <<>>

\* One call of removeRecursive / removeSingle by mainRm.
Init ==
    /\ listing \in Listings
    /\ olderThan \in Cutoffs
    /\ newerThan \in Cutoffs
    /\ tieSkip \in BOOLEAN
    /\ clientOK \in BOOLEAN
    /\ isRecursive \in BOOLEAN
    /\ isForce \in BOOLEAN
    /\ RunIdle
    /\ InLoop
    /\ UploadIdle
    /\ DirIdle /\ KeysIdle

----------------------------------------------------------------------------
(* removeRecursive *)

\* Entry of removeRecursive up to the `for ... range clnt.List(...)`.
RRStart ==
    /\ pc = "start" /\ isRecursive
    /\ \E fake \in BOOLEAN :
        /\ op' = "recursive" /\ isFake' = fake
        /\ IF ~clientOK
           THEN /\ Return("err")
                /\ UNCHANGED <<runList, chan, remover>>
           ELSE /\ pc' = "list" /\ result' = result
                /\ chMade' = TRUE
                /\ rm_pc' = "recv"
                /\ runList' = RunListOf(listing, deleted)
                /\ UNCHANGED <<chBuf, chCloses, chSendClosed, rmQueue>>
    /\ UNCHANGED <<inputs, cmd, upload, pure, statKind, deleted, phase, prevReport, otherSeen, listIdx,
                   pending, retried, reported, sent, ctxCancelled>>

\* One iteration of the listing loop, up to the select.
RRRecv ==
    /\ pc = "list" /\ op = "recursive"
    /\ ~ListClosed
    /\ LET e == runList[listIdx] IN
        /\ listIdx' = listIdx + 1
        /\ IF e.err # "none"
           THEN IF IgnoredFailure(e.err)
                THEN UNCHANGED <<pc, result, otherSeen, chCloses, pending, reported>>
                ELSE /\ chCloses' = CloseOnAbort(chCloses)
                     /\ Return("err") /\ otherSeen' = TRUE
                     /\ UNCHANGED <<pending, reported>>
           ELSE IF SkipPrefixLevel(e.age) \/ SkipByAge(e.age)
                THEN UNCHANGED <<pc, result, otherSeen, chCloses, pending, reported>>
                ELSE /\ reported' = Printed(isFake, reported, e.id)
                     /\ IF FeedsBackend(isFake)
                        THEN pc' = "feed" /\ pending' = e.id
                        ELSE UNCHANGED <<pc, pending>>
                     /\ UNCHANGED <<result, otherSeen, chCloses>>
    /\ UNCHANGED <<inputs, cmd, upload, pure, statKind, retried, deleted, phase, prevReport, op, isFake, runList,
                   chMade, chBuf, chSendClosed, remover, sent, ctxCancelled>>

\* The listing channel is closed: leave the loop and close(contentCh).
RRListEnd ==
    /\ pc = "list" /\ op = "recursive"
    /\ ListClosed
    /\ chCloses' = CloseAtEnd(chCloses)
    /\ pc' = "drain"
    /\ UNCHANGED <<inputs, cmd, upload, pure, statKind, retried, deleted, phase, prevReport, op, isFake, result,
                   otherSeen, runList, listIdx, pending, chMade, chBuf,
                   chSendClosed, remover, reported, sent, ctxCancelled>>

\* case contentCh <- content: the removal task receives the descriptor.
RRSend ==
    /\ pc = "feed" /\ rm_pc = "recv"
    /\ sent' = SendOn(sent, pending)
    /\ chSendClosed' = (chSendClosed \/ chCloses > 0)
    /\ \E outcome \in {"ok", "perm", "other"} : RemoverTake(pending, outcome)
    /\ pending' = 0
    /\ pc' = "list"
    /\ UNCHANGED <<inputs, cmd, upload, pure, statKind, retried, phase, prevReport, op, isFake, result, otherSeen,
                   runList, listIdx, chMade, chBuf, chCloses, rm_pc, reported,
                   ctxCancelled>>

\* case pErr := <-errorCh, while a send is pending.  A closed errorCh
\* yields a nil pErr.
RRFeedErr ==
    /\ pc = "feed" /\ rm_pc \in {"emit", "closed"}
    /\ LET class == IF rm_pc = "emit" THEN Head(rmQueue) ELSE "nil" IN
        /\ IF rm_pc = "emit"
           THEN \E stop \in BOOLEAN : RemoverEmitted(stop)
           ELSE UNCHANGED remover
        /\ IF IgnoredFailure(class)
           THEN /\ pending' = KeepPending(pending)
                /\ pc' = IF pending' = 0 THEN "list" ELSE "feed"
                /\ retried' = retried \cup {pending}
                /\ UNCHANGED <<result, otherSeen, chCloses>>
           ELSE /\ chCloses' = CloseOnAbort(chCloses)
                /\ Return("err") /\ otherSeen' = TRUE
                /\ UNCHANGED <<pending, retried>>
    /\ UNCHANGED <<inputs, cmd, upload, pure, statKind, deleted, phase, prevReport, op, isFake, runList,
                   listIdx, chMade, chBuf, chSendClosed, reported, sent,
                   ctxCancelled>>

\* for pErr := range errorCh: one failure received in the final drain.
RRDrainErr ==
    /\ pc = "drain" /\ rm_pc = "emit"
    /\ \E stop \in BOOLEAN : RemoverEmitted(stop)
    /\ IF IgnoredFailure(Head(rmQueue))
       THEN UNCHANGED <<pc, result, otherSeen>>
       ELSE Return("err") /\ otherSeen' = TRUE
    /\ UNCHANGED <<inputs, cmd, upload, pure, statKind, retried, deleted, phase, prevReport, op, isFake, runList,
                   listIdx, pending, chan, reported, sent, ctxCancelled>>

\* errorCh is closed: the range loop ends and removeRecursive returns nil.
RRDrainEnd ==
    /\ pc = "drain" /\ rm_pc = "closed"
    /\ Return("ok")
    /\ UNCHANGED <<inputs, cmd, upload, pure, statKind, retried, deleted, phase, prevReport, op, isFake, otherSeen,
                   runList, listIdx, pending, chan, remover, reported, sent,
                   ctxCancelled>>

----------------------------------------------------------------------------
(* removeSingle *)

\* What statURL can answer for the target of removeSingle: a failure, no
\* content, or one of the timestamped objects the backend still holds.  It
\* reaches the backend through a client for the target's alias, so without
\* one it can only fail.
StatResults ==
    IF ~clientOK
    THEN { [kind |-> "statErr", id |-> 0] }
    ELSE { [kind |-> "statErr", id |-> 0], [kind |-> "absent", id |-> 0] }
         \cup { [kind |-> "found", id |-> i] :
                  i \in { j \in 1..Len(listing) :
                            listing[j].err = "none" /\ listing[j].age # NoTime
                            /\ j \notin deleted } }

\* removeSingle from its entry to the call of clnt.Remove: the stat, the age
\* tests, printMsg, and, unless --fake, the buffered send and the close.
RSStart ==
    /\ pc = "start" /\ ~isRecursive
    /\ \E fake \in BOOLEAN, st \in StatResults :
        /\ op' = "single" /\ isFake' = fake
        /\ statKind' = st.kind
        /\ runList' = IF st.kind = "found"
                      THEN <<[id |-> st.id, err |-> "none", age |-> listing[st.id].age]>>
                      ELSE <<>>
        /\ IF st.kind = "statErr"
           THEN /\ Return("err")
                /\ UNCHANGED <<chan, remover, reported, sent>>
           ELSE IF st.kind = "absent"
           THEN /\ Return(AbsentStatus(isForce))
                /\ UNCHANGED <<chan, remover, reported, sent>>
           ELSE IF SkipByAge(listing[st.id].age)
           THEN /\ Return("ok")
                /\ UNCHANGED <<chan, remover, reported, sent>>
           ELSE /\ reported' = Printed(fake, reported, st.id)
                /\ IF ~FeedsBackend(fake)
                   THEN /\ Return("ok")
                        /\ UNCHANGED <<chan, remover, sent>>
                   ELSE IF ~clientOK
                   THEN /\ Return("err")
                        /\ UNCHANGED <<chan, remover, sent>>
                   ELSE /\ chMade' = TRUE
                        /\ chSendClosed' = (chSendClosed \/ chCloses > 0)
                        /\ chBuf' = SendOn(chBuf, st.id)
                        /\ sent' = SendOn(sent, st.id)
                        /\ chCloses' = CloseAtEnd(chCloses)
                        /\ rm_pc' = "recv"
                        /\ pc' = "sdrain" /\ result' = result
                        /\ UNCHANGED rmQueue
    /\ UNCHANGED <<inputs, cmd, upload, pure, deleted, phase, prevReport, otherSeen, listIdx,
                   pending, retried, ctxCancelled>>

\* for pErr := range errorCh: one failure received.
RSDrainErr ==
    /\ pc = "sdrain" /\ rm_pc = "emit"
    /\ \E stop \in BOOLEAN : RemoverEmitted(stop)
    /\ IF IgnoredFailure(Head(rmQueue))
       THEN UNCHANGED <<pc, result, otherSeen>>
       ELSE Return("err") /\ otherSeen' = TRUE
    /\ UNCHANGED <<inputs, cmd, upload, pure, statKind, retried, deleted, phase, prevReport, op, isFake, runList,
                   listIdx, pending, chan, reported, sent, ctxCancelled>>

\* errorCh is closed: removeSingle returns nil.
RSDrainEnd ==
    /\ pc = "sdrain" /\ rm_pc = "closed"
    /\ Return("ok")
    /\ UNCHANGED <<inputs, cmd, upload, pure, statKind, retried, deleted, phase, prevReport, op, isFake, otherSeen,
                   runList, listIdx, pending, chan, remover, reported, sent,
                   ctxCancelled>>

----------------------------------------------------------------------------
(* The removal task behind Client.Remove *)

\* The task stops receiving and blocks sending a failure on errorCh.
RemoverEmit ==
    /\ rm_pc = "recv" /\ rmQueue # <<>>
    /\ rm_pc' = "emit"
    /\ UNCHANGED <<inputs, cmd, upload, pure, statKind, retried, deleted, phase, prevReport, op, isFake, pc, result,
                   otherSeen, runList, listIdx, pending, chan, rmQueue,
                   reported, sent, ctxCancelled>>

\* The task takes the descriptor buffered in contentCh (removeSingle).
RemoverRecv ==
    /\ rm_pc = "recv" /\ chBuf # <<>>
    /\ \E outcome \in {"ok", "perm", "other"} : RemoverTake(Head(chBuf), outcome)
    /\ chBuf' = Tail(chBuf)
    /\ UNCHANGED <<inputs, cmd, upload, pure, statKind, retried, phase, prevReport, op, isFake, pc, result,
                   otherSeen, runList, listIdx, pending, chMade, chCloses,
                   chSendClosed, rm_pc, reported, sent, ctxCancelled>>

\* contentCh is closed and empty and every failure was emitted: the task
\* closes errorCh and ends.
RemoverClose ==
    /\ rm_pc = "recv" /\ chCloses > 0 /\ chBuf = <<>> /\ rmQueue = <<>>
    /\ rm_pc' = "closed"
    /\ UNCHANGED <<inputs, cmd, upload, pure, statKind, retried, deleted, phase, prevReport, op, isFake, pc, result,
                   otherSeen, runList, listIdx, pending, chan, rmQueue,
                   reported, sent, ctxCancelled>>

\* The context given to Client.Remove is cancelled: the task gives up,
\* closing errorCh, though contentCh may still be open.
RemoverCancelled ==
    /\ rm_pc = "recv" /\ ctxCancelled /\ rmQueue = <<>>
    /\ rm_pc' = "closed"
    /\ UNCHANGED <<inputs, cmd, upload, pure, statKind, retried, deleted, phase, prevReport, op, isFake, pc, result,
                   otherSeen, runList, listIdx, pending, chan, rmQueue,
                   reported, sent, ctxCancelled>>

----------------------------------------------------------------------------
(* Environment *)

\* globalContext is cancelled while an operation is running.
Cancel ==
    /\ pc \in {"list", "feed", "drain", "sdrain"}
    /\ ~ctxCancelled
    /\ ctxCancelled' = TRUE
    /\ UNCHANGED <<inputs, cmd, upload, pure, statKind, retried, deleted, phase, prevReport, op, isFake, pc, result,
                   otherSeen, runList, listIdx, pending, chan, remover,
                   reported, sent>>

\* After a dry run the command is invoked once more on the same backend,
\* with the same cutoffs.
NextRun ==
    /\ pc = "done" /\ phase = "first" /\ isFake /\ ~ctxCancelled
    /\ phase' = "second"
    /\ prevReport' = [op |-> op, rep |-> reported]
    /\ op' = "none" /\ isFake' = FALSE
    /\ pc' = "start" /\ result' = "none" /\ otherSeen' = FALSE
    /\ runList' = <<>> /\ listIdx' = 1 /\ pending' = 0 /\ retried' = {}
    /\ chMade' = FALSE /\ chBuf' = <<>> /\ chCloses' = 0 /\ chSendClosed' = FALSE
    /\ rm_pc' = "idle" /\ rmQueue' = <<>>
    /\ reported' = <<>> /\ sent' = <<>> /\ statKind' = "none"
    /\ UNCHANGED <<inputs, cmd, upload, pure, deleted, ctxCancelled>>

Next ==
    \/ RRStart \/ RRRecv \/ RRListEnd \/ RRSend \/ RRFeedErr
    \/ RRDrainErr \/ RRDrainEnd
    \/ RSStart \/ RSDrainErr \/ RSDrainEnd
    \/ RemoverEmit \/ RemoverRecv \/ RemoverClose \/ RemoverCancelled
    \/ Cancel \/ NextRun

Spec == Init /\ [][Next]_vars

----------------------------------------------------------------------------
(* mainRm and checkRmSyntax *)

\* Longest argument list, and longest list of targets on stdin.
MaxArgs == 2
MaxStdin == 1

\* A target as the user writes it: on a filesystem or behind an alias, with
\* segs path segments (the alias being the first), with or without a
\* trailing separator, and what a stat of it finds.
Targets ==
    { [fs |-> FALSE, segs |-> 1, slash |-> FALSE, stat |-> "none"],
      [fs |-> FALSE, segs |-> 2, slash |-> FALSE, stat |-> "none"],
      [fs |-> FALSE, segs |-> 2, slash |-> FALSE, stat |-> "dir"],
      [fs |-> FALSE, segs |-> 3, slash |-> FALSE, stat |-> "none"],
      [fs |-> FALSE, segs |-> 3, slash |-> TRUE, stat |-> "none"],
      [fs |-> FALSE, segs |-> 3, slash |-> FALSE, stat |-> "dir"],
      [fs |-> FALSE, segs |-> 3, slash |-> FALSE, stat |-> "file"],
      [fs |-> TRUE, segs |-> 3, slash |-> TRUE, stat |-> "none"] }

ArgLists == UNION { [1..n -> Targets] : n \in 0..MaxArgs }
StdinLists == UNION { [1..n -> Targets] : n \in 0..MaxStdin }

\* filepath.ToSlash(filepath.Clean(url)): a trailing separator is dropped.
Clean(url) == [url EXCEPT !.slash = FALSE]

\* The characters of a target: its segments joined by separators, and the
\* trailing separator if it has one.
Text(url) ==
    [i \in 1..(2 * url.segs - 1) |-> IF i % 2 = 1 THEN "a" ELSE "/"]
        \o (IF url.slash THEN <<"/">> ELSE <<>>)

\* strings.Split(s, sep) for a separator of one character.
RECURSIVE Split(_, _)
Split(s, sep) ==
    IF \A i \in 1..Len(s) : s[i] # sep THEN <<s>>
    ELSE LET i == CHOOSE k \in 1..Len(s) :
                      s[k] = sep /\ \A j \in 1..(k - 1) : s[j] # sep
         IN <<SubSeq(s, 1, i - 1)>> \o Split(SubSeq(s, i + 1, Len(s)), sep)

\* strings.HasSuffix(s, suffix)
HasSuffix(s, suffix) ==
    /\ Len(suffix) <= Len(s)
    /\ SubSeq(s, Len(s) - Len(suffix) + 1, Len(s)) = suffix

\* isAliasURLDir: the stat decides when the target exists; otherwise an
\* address no alias expands is a directory when it ends with a separator,
\* and an aliased one is not when it has one field, is when it has two, and
\* with more fields when it ends with a separator.
isAliasURLDir(address, aliased, st) ==
    IF st # "none" THEN st = "dir"
    ELSE IF ~aliased THEN HasSuffix(address, <<"/">>)
    ELSE LET fields == Split(address, "/")
         IN IF Len(fields) \in {0, 1} THEN FALSE
            ELSE IF Len(fields) = 2 THEN TRUE
            ELSE HasSuffix(address, <<"/">>)

\* isAliasURLDir(ctx, url, encKeyDB) for a target.
TargetIsDir(url) == isAliasURLDir(Text(url), ~url.fs, url.stat)

\* _, path := url2Alias(url); path == "": nothing follows the alias.
PathEmpty(url) == url.segs = 1

\* The target names a whole backend namespace.
IsNamespace(url) == PathEmpty(Clean(url))

\* The loop of checkRmSyntax over the arguments from the i-th on: whether it
\* ends in fatalIf, and isNamespaceRemoval after it.  It stops at the first
\* argument that is not a directory.
RECURSIVE ScanArgs(_, _)
ScanArgs(a, i) ==
    IF i > Len(a) THEN [fatal |-> FALSE, ns |-> FALSE]
    ELSE LET url == Clean(a[i])
             dir == TargetIsDir(url)
         IN IF ~dir THEN [fatal |-> FALSE, ns |-> PathEmpty(url)]
            ELSE IF (dir /\ isRecursive /\ ~isForce) \/ (dir /\ ~isRecursive)
            THEN [fatal |-> TRUE, ns |-> FALSE]
            ELSE ScanArgs(a, i + 1)

ForceOnlyIfRecursive == isRecursive /\ ~isForce

\* if (isRecursive || isStdin) && !isForce
NeedsForce == (isRecursive \/ isStdin) /\ ~isForce

\* if (isRecursive || isStdin) && isNamespaceRemoval && !isDangerous
NeedsDangerous(ns) == (isRecursive \/ isStdin) /\ ns /\ ~isDangerous

\* checkRmSyntax: "fatal" (fatalIf ends the process), "help"
\* (ShowCommandHelpAndExit) or "args" (it returns to mainRm).
checkRmSyntax ==
    LET scan == ScanArgs(args, 1) IN
    IF scan.fatal THEN "fatal"
    ELSE IF args = <<>> /\ ~isStdin THEN "help"
    ELSE IF NeedsForce THEN "fatal"
    ELSE IF NeedsDangerous(scan.ns) THEN "fatal"
    ELSE "args"

\* The rm command is invoked.
InitMain ==
    /\ isRecursive \in BOOLEAN /\ isForce \in BOOLEAN
    /\ isStdin \in BOOLEAN /\ isDangerous \in BOOLEAN
    /\ args \in ArgLists
    /\ stdinLines \in (IF isStdin THEN StdinLists ELSE {<<>>})
    /\ mpc = "check" /\ nextArg = 1 /\ rerr = "ok" /\ started = <<>>
    /\ listing = <<>> /\ olderThan = Unset /\ newerThan = Unset
    /\ tieSkip = FALSE /\ clientOK = TRUE
    /\ RunIdle
    /\ UploadIdle
    /\ DirIdle /\ KeysIdle

\* The variables of a removal, which mainRm itself leaves alone.
run == <<listing, olderThan, newerThan, tieSkip, clientOK, deleted, phase,
         prevReport, op, isFake, pc, result, statKind, otherSeen, runList,
         listIdx, pending, retried, chan, remover, reported, sent,
         ctxCancelled>>

flags == <<isRecursive, isForce, isStdin, isDangerous>>

\* mainRm up to the return of checkRmSyntax.
MainCheck ==
    /\ mpc = "check"
    /\ mpc' = checkRmSyntax
    /\ UNCHANGED <<run, upload, pure, flags, args, stdinLines, nextArg, rerr, started>>

LastError(prev, e) == e

\* if rerr == nil { rerr = e }
FirstError(prev, e) == IF prev = "ok" THEN e ELSE prev

\* The call of removeRecursive / removeSingle for url returns e.
MainCall(url, e) ==
    /\ started' = Append(started, [url |-> url, e |-> e])
    /\ rerr' = FirstError(rerr, e)
    /\ nextArg' = nextArg + 1

\* for _, url := range cliCtx.Args(): one target.
MainArg ==
    /\ mpc = "args" /\ nextArg <= Len(args)
    /\ \E e \in {"ok", "err"} : MainCall(args[nextArg], e)
    /\ UNCHANGED <<run, upload, pure, flags, args, stdinLines, mpc>>

\* The arguments are done: return rerr unless --stdin.
MainArgsDone ==
    /\ mpc = "args" /\ nextArg > Len(args)
    /\ mpc' = IF ~isStdin THEN "exit" ELSE "stdin"
    /\ nextArg' = 1
    /\ UNCHANGED <<run, upload, pure, flags, args, stdinLines, rerr, started>>

\* for scanner.Scan(): one target read from stdin.
MainLine ==
    /\ mpc = "stdin" /\ nextArg <= Len(stdinLines)
    /\ \E e \in {"ok", "err"} : MainCall(stdinLines[nextArg], e)
    /\ UNCHANGED <<run, upload, pure, flags, args, stdinLines, mpc>>

\* stdin is exhausted: return rerr.
MainStdinDone ==
    /\ mpc = "stdin" /\ nextArg > Len(stdinLines)
    /\ mpc' = "exit"
    /\ UNCHANGED <<run, upload, pure, flags, args, stdinLines, nextArg, rerr, started>>

NextMain ==
    \/ MainCheck \/ MainArg \/ MainArgsDone \/ MainLine \/ MainStdinDone

SpecMain == InitMain /\ [][NextMain]_vars

----------------------------------------------------------------------------
(* isAliasURLDir (common-methods.go) *)

\* No removal is going on and the rm command is not running.
NoRm ==
    /\ listing = <<>> /\ olderThan = Unset /\ newerThan = Unset
    /\ tieSkip = FALSE /\ clientOK = TRUE
    /\ isRecursive = FALSE /\ isForce = FALSE
    /\ isStdin = FALSE /\ isDangerous = FALSE
    /\ args = <<>> /\ stdinLines = <<>>
    /\ mpc = "none" /\ nextArg = 1 /\ rerr = "ok" /\ started = <<>>
    /\ RunIdle

rm == <<run, flags, cmd>>

MaxAddr == 5

\* The addresses of up to MaxAddr characters, a separator being one of them.
Addresses == UNION { [1..n -> {"a", "/"}] : n \in 0..MaxAddr }

\* isAliasURLDir is called with an address; an alias can only be found at
\* the head of an address that starts with a name.
InitDir ==
    /\ aliasURL \in Addresses
    /\ expands \in (IF aliasURL # <<>> /\ aliasURL[1] # "/" THEN BOOLEAN ELSE {FALSE})
    /\ urlStat \in {"none", "dir", "file"}
    /\ dpc = "call" /\ isDir = FALSE
    /\ KeysIdle /\ UploadIdle /\ NoRm

DirCall ==
    /\ dpc = "call"
    /\ isDir' = isAliasURLDir(aliasURL, expands, urlStat)
    /\ dpc' = "done"
    /\ UNCHANGED <<rm, upload, keyv, aliasURL, expands, urlStat>>

NextDir == DirCall

SpecDir == InitDir /\ [][NextDir]_vars

----------------------------------------------------------------------------
(* getEncKeys, getDecodedKey and parseKey (common-methods.go).  A string is
   the sequence of its bytes. *)

MaxEntries == 2

\* len(secretValue) == 32, len(decodedString) != 32
KeySize == 32

Equals == 61
Comma == 44

\* The alphabet of base64.StdEncoding: the character of a value, and the
\* value of a character (-1 for a character outside the alphabet).
B64Char(i) ==
    IF i < 26 THEN 65 + i
    ELSE IF i < 52 THEN 97 + (i - 26)
    ELSE IF i < 62 THEN 48 + (i - 52)
    ELSE IF i = 62 THEN 43 ELSE 47

B64Index(c) ==
    IF c \in 65..90 THEN c - 65
    ELSE IF c \in 97..122 THEN c - 97 + 26
    ELSE IF c \in 48..57 THEN c - 48 + 52
    ELSE IF c = 43 THEN 62
    ELSE IF c = 47 THEN 63 ELSE -1

\* base64.StdEncoding.EncodeToString, which the user applies to a key.
RECURSIVE Encode(_)
Encode(b) ==
    IF Len(b) = 0 THEN <<>>
    ELSE IF Len(b) = 1
    THEN <<B64Char(b[1] \div 4), B64Char((b[1] % 4) * 16), Equals, Equals>>
    ELSE IF Len(b) = 2
    THEN <<B64Char(b[1] \div 4), B64Char((b[1] % 4) * 16 + b[2] \div 16),
           B64Char((b[2] % 16) * 4), Equals>>
    ELSE <<B64Char(b[1] \div 4), B64Char((b[1] % 4) * 16 + b[2] \div 16),
           B64Char((b[2] % 16) * 4 + b[3] \div 64), B64Char(b[3] % 64)>>
         \o Encode(SubSeq(b, 4, Len(b)))

Corrupt == [ok |-> FALSE, bytes |-> <<>>]

\* base64.StdEncoding.DecodeString, for an input without line breaks:
\* groups of four characters of the alphabet, the last one padded.
RECURSIVE Decode(_)
Decode(s) ==
    IF Len(s) = 0 THEN [ok |-> TRUE, bytes |-> <<>>]
    ELSE IF Len(s) < 4 THEN Corrupt
    ELSE LET a == B64Index(s[1])
             b == B64Index(s[2])
             c == B64Index(s[3])
             d == B64Index(s[4])
         IN IF a < 0 \/ b < 0 THEN Corrupt
            ELSE IF s[3] = Equals
            THEN IF s[4] = Equals /\ Len(s) = 4
                 THEN [ok |-> TRUE, bytes |-> <<a * 4 + b \div 16>>]
                 ELSE Corrupt
            ELSE IF c < 0 THEN Corrupt
            ELSE IF s[4] = Equals
            THEN IF Len(s) = 4
                 THEN [ok |-> TRUE,
                       bytes |-> <<a * 4 + b \div 16, (b % 16) * 16 + c \div 4>>]
                 ELSE Corrupt
            ELSE IF d < 0 THEN Corrupt
            ELSE LET rest == Decode(SubSeq(s, 5, Len(s)))
                 IN IF rest.ok
                    THEN [ok |-> TRUE,
                          bytes |-> <<a * 4 + b \div 16, (b % 16) * 16 + c \div 4,
                                      (c % 4) * 64 + d>> \o rest.bytes]
                    ELSE Corrupt

\* probe.NewError(errors.New(...)): a message and no trace yet.
NewError(msg) == [msg |-> msg, fields |-> <<>>]
Nil == [msg |-> "nil", fields |-> <<>>]

\* err.Trace(fields...)
Trace(err, field) == [err EXCEPT !.fields = Append(@, field)]

\* parseKey: the entry is split at its first "="; a value of 32 bytes is
\* kept as it is, any other is decoded.
parseKey(entry) ==
    IF \A i \in 1..Len(entry) : entry[i] # Equals
    THEN [sse |-> <<>>, err |-> NewError("SSE-C prefix should be of the form")]
    ELSE LET i == CHOOSE k \in 1..Len(entry) :
                      entry[k] = Equals /\ \A j \in 1..(k - 1) : entry[j] # Equals
             secretValue == SubSeq(entry, i + 1, Len(entry))
             decoded == Decode(secretValue)
         IN IF Len(secretValue) = KeySize THEN [sse |-> entry, err |-> Nil]
            ELSE IF ~decoded.ok \/ Len(decoded.bytes) # KeySize
            THEN [sse |-> <<>>, err |-> NewError("Encryption key should be 32 bytes")]
            ELSE [sse |-> SubSeq(entry, 1, i - 1) \o <<Equals>> \o decoded.bytes,
                  err |-> Nil]

\* The loop of getDecodedKey from the i-th field on, keyString being what
\* the fields before it gave.
RECURSIVE DecodeFrom(_, _, _)
DecodeFrom(fields, i, acc) ==
    IF i > Len(fields) THEN [key |-> acc, err |-> Nil]
    ELSE LET sep == IF i > 1 THEN <<Comma>> ELSE <<>>
             r == parseKey(fields[i])
         IN IF r.err # Nil THEN [key |-> <<>>, err |-> r.err]
            ELSE DecodeFrom(fields, i + 1, acc \o sep \o r.sse)

getDecodedKey(keys) == DecodeFrom(Split(keys, Comma), 1, <<>>)

\* A key of KeySize bytes, all "A" but the second, and one a byte short.
Key(b) == [i \in 1..KeySize |-> IF i = 2 THEN b ELSE 65]
ShortKey == [i \in 1..(KeySize - 1) |-> 65]

\* What the user can write for an entry: a prefix, a key, and the key
\* written as it is ("literal"), in base64 ("base64"), in base64 with a
\* character outside the alphabet ("garbled"), or left out with its "="
\* ("bare").
Entries ==
    [ prefix : {<<112>>, <<113, 47>>},
      key : {Key(65), Key(Comma), Key(Equals)},
      form : {"literal", "base64"} ]
    \cup [ prefix : {<<112>>}, key : {ShortKey}, form : {"literal", "base64"} ]
    \cup [ prefix : {<<112>>}, key : {Key(65)}, form : {"garbled", "bare"} ]

\* The text of an entry.
Written(e) ==
    IF e.form = "bare" THEN e.prefix
    ELSE IF e.form = "literal" THEN e.prefix \o <<Equals>> \o e.key
    ELSE IF e.form = "base64" THEN e.prefix \o <<Equals>> \o Encode(e.key)
    ELSE e.prefix \o <<Equals, 33>> \o Tail(Encode(e.key))

\* prefix1=key1,prefix2=key2,...
RECURSIVE Joined(_)
Joined(texts) ==
    IF Len(texts) = 0 THEN <<>>
    ELSE IF Len(texts) = 1 THEN texts[1]
    ELSE texts[1] \o <<Comma>> \o Joined(Tail(texts))

\* getEncKeys is called with a key list of one entry or more.
InitKeys ==
    /\ entries \in UNION { [1..n -> Entries] : n \in 1..MaxEntries }
    /\ sseKeys = Joined([i \in 1..Len(entries) |-> Written(entries[i])])
    /\ kpc = "call" /\ keyString = <<>> /\ kerr = Nil
    /\ DirIdle /\ UploadIdle /\ NoRm

\* getEncKeys from the call of getDecodedKey to the return of its error:
\* sseKeys is assigned the result before it is given to Trace.
KeysDecode ==
    /\ kpc = "call"
    /\ LET r == getDecodedKey(sseKeys)
       IN /\ keyString' = r.key
          /\ kerr' = IF r.err # Nil THEN Trace(r.err, r.key) ELSE Nil
    /\ kpc' = "done"
    /\ UNCHANGED <<rm, upload, dirv, entries, sseKeys>>

NextKeys == KeysDecode

SpecKeys == InitKeys /\ [][NextKeys]_vars

----------------------------------------------------------------------------
(* uploadSourceToTargetURL (common-methods.go) *)

\* Header keys are sequences of characters, so that canonicalisation and the
\* prefix test work on them as they do on Go strings.
Lowers == <<"e", "k", "s", "x">>
Uppers == <<"E", "K", "S", "X">>
Letters == { Lowers[i] : i \in 1..Len(Lowers) } \cup { Uppers[i] : i \in 1..Len(Uppers) }
\* The bytes of a header field name (a token): letters and "-" here.
TokenChars == Letters \cup {"-"}

ToUpper(c) ==
    IF \E i \in 1..Len(Lowers) : Lowers[i] = c
    THEN Uppers[CHOOSE i \in 1..Len(Lowers) : Lowers[i] = c] ELSE c

ToLower(c) ==
    IF \E i \in 1..Len(Uppers) : Uppers[i] = c
    THEN Lowers[CHOOSE i \in 1..Len(Uppers) : Uppers[i] = c] ELSE c

\* httpguts.ValidHeaderFieldName
ValidHeaderFieldName(k) ==
    k # <<>> /\ \A i \in 1..Len(k) : k[i] \in TokenChars

\* httpguts.ValidHeaderFieldValue; a value is a record that tells where it
\* comes from and whether it holds a byte a header value may not.
ValidHeaderFieldValue(v) == v.ok

\* http.CanonicalHeaderKey: the first letter and every letter after a "-" in
\* upper case, the others in lower case; a key with a byte that is no token
\* byte is returned as it is.
CanonicalHeaderKey(k) ==
    IF \E i \in 1..Len(k) : k[i] \notin TokenChars THEN k
    ELSE [i \in 1..Len(k) |->
            IF i = 1 \/ k[i - 1] = "-" THEN ToUpper(k[i]) ELSE ToLower(k[i])]

\* strings.HasPrefix
HasPrefix(str, prefix) ==
    Len(prefix) <= Len(str) /\ SubSeq(str, 1, Len(prefix)) = prefix

\* The prefix of the headers that carry an encryption key, shortened.
serverEncryptionKeyPrefix == <<"x", "-", "s", "s", "e">>

\* The object-lock headers, shortened; they are canonical.
AmzObjectLockMode == <<"X", "-", "K", "-", "E">>
AmzObjectLockRetainUntilDate == <<"X", "-", "K", "-", "K">>
AmzObjectLockLegalHold == <<"X", "-", "K", "-", "S">>
LockKeys == {AmzObjectLockMode, AmzObjectLockRetainUntilDate, AmzObjectLockLegalHold}

\* The keys a caller or a backend supplies: a user key in lower case, a key
\* with the encryption prefix in mixed case, and one that is no field name.
KeyUser == <<"x", "-", "k">>
KeySSE == <<"X", "-", "s", "S", "e", "-", "k">>
KeyBad == <<"x", " ", "k">>

\* m with m[k] = v
SetKey(m, k, v) == [x \in DOMAIN m \cup {k} |-> IF x = k THEN v ELSE m[x]]

\* for k, v := range layer { m[http.CanonicalHeaderKey(k)] = v }
\* (no layer here spells one key in two ways, so the order of the range
\* does not matter).
MergeCanonical(m, layer) ==
    LET new == { CanonicalHeaderKey(k) : k \in DOMAIN layer } IN
    [c \in DOMAIN m \cup new |->
        IF c \in new
        THEN layer[CHOOSE k \in DOMAIN layer : CanonicalHeaderKey(k) = c]
        ELSE m[c]]

\* The entries of m that are valid header fields.
ValidEntries(m) ==
    [k \in { x \in DOMAIN m : ValidHeaderFieldName(x) /\ ValidHeaderFieldValue(m[x]) }
        |-> m[k]]

FilterOnlyInvalid(m) == ValidEntries(m)

\* filterMetadata: keep the entries that are valid header fields, then
\* delete those whose canonical key starts with the canonical encryption
\* prefix.
filterMetadata(m) ==
    LET newMetadata == ValidEntries(m) IN
    [k \in { x \in DOMAIN newMetadata :
               ~HasPrefix(CanonicalHeaderKey(x),
                          CanonicalHeaderKey(serverEncryptionKeyPrefix)) }
        |-> newMetadata[k]]

\* The metadata one source can hold: nothing, the user key with a good or a
\* bad value, a key with the encryption prefix, or a key that is no field
\* name.  Every value tells the layer it comes from.
Layers(from) ==
    { <<>> }
    \cup { SetKey(<<>>, KeyUser, [from |-> from, ok |-> b]) : b \in BOOLEAN }
    \cup { SetKey(<<>>, k, [from |-> from, ok |-> TRUE]) : k \in {KeySSE, KeyBad} }

\* TargetContent.RetentionEnabled, and whether parseRetentionValidity and
\* getRetainUntilDate accept the mode and the duration.
RetentionOpts ==
    { [enabled |-> FALSE, valid |-> TRUE],
      [enabled |-> TRUE, valid |-> TRUE], [enabled |-> TRUE, valid |-> FALSE] }

\* TargetContent.LegalHoldEnabled and TargetContent.LegalHold.
LegalHoldOpts ==
    { [enabled |-> FALSE, value |-> ""] }
    \cup { [enabled |-> TRUE, value |-> v] : v \in {"ON", "OFF", "bogus"} }

\* The URLs uploadSourceToTargetURL can be given, for a source object whose
\* stored metadata is st: SourceContent.Metadata is that metadata when the
\* caller fetched it.
URLsFor(st) ==
    [ SourceAlias : {"a"}, TargetAlias : {"a", "b"},
      SourceContent : [ UserMetadata : Layers("su"), Metadata : {<<>>, st},
                        RetentionEnabled : BOOLEAN ],
      TargetContent : [ Metadata : Layers("ts"), UserMetadata : Layers("tu"),
                        Retention : RetentionOpts, LegalHold : LegalHoldOpts ] ]

\* The values of the local mode, until and legalHold as header values:
\* "unset" is the empty string.
LockValue(set, name) == [from |-> IF set THEN name ELSE "unset", ok |-> TRUE]
mode == LockValue(urls.TargetContent.Retention.enabled, "mode")
until == LockValue(urls.TargetContent.Retention.enabled, "until")
legalHold == LockValue(urls.TargetContent.LegalHold.enabled, "legalHold")

\* copySourceToTargetURL sets the three lock headers, set or not.
CopyMetadata(m) ==
    SetKey(SetKey(SetKey(m, AmzObjectLockMode, mode),
                  AmzObjectLockRetainUntilDate, until),
           AmzObjectLockLegalHold, legalHold)

\* putTargetStream sets the lock headers that are not empty.
PutMetadata(m) ==
    LET m1 == IF mode.from # "unset" THEN SetKey(m, AmzObjectLockMode, mode) ELSE m
        m2 == IF until.from # "unset"
              THEN SetKey(m1, AmzObjectLockRetainUntilDate, until) ELSE m1
    IN IF legalHold.from # "unset"
       THEN SetKey(m2, AmzObjectLockLegalHold, legalHold) ELSE m2

\* getAllMetadata after a successful Stat.
getAllMetadata ==
    filterMetadata(
        MergeCanonical(MergeCanonical(<<>>, stored), urls.TargetContent.UserMetadata))

\* The metadata getSourceStream returns: the valid entries of what Stat
\* yields, under the keys Stat yields them.
StreamMetadata == ValidEntries(stored)

\* Get metadata from target content as well / Get userMetadata from target
\* content as well.
MergeTarget(m) ==
    MergeCanonical(MergeCanonical(m, urls.TargetContent.Metadata),
                   urls.TargetContent.UserMetadata)

\* The loops over SourceContent.UserMetadata and SourceContent.Metadata, in
\* that order.
MergeSource ==
    MergeCanonical(MergeCanonical(<<>>, urls.SourceContent.UserMetadata),
                   urls.SourceContent.Metadata)

\* A backend call: its name, the metadata it is given, and for a Put whether
\* the reader is bounded by io.LimitReader.
Call(name, md, limited) == [op |-> name, md |-> md, limited |-> limited]

SameAliasNever == FALSE

\* if sourceAlias == targetAlias
SameAlias == urls.SourceAlias = urls.TargetAlias

RetentionOnlyNever == FALSE

\* if urls.SourceContent.RetentionEnabled
RetentionOnly == urls.SourceContent.RetentionEnabled

\* The names of os.Stdin, os.Stdout and os.Stderr.
StdStreams == <<"/dev/stdin", "/dev/stdout", "/dev/stderr">>

\* The readers Get can return: a *minio.Object, or an *os.File with the name
\* of a standard stream or of a file of the filesystem.
Readers ==
    { [kind |-> "object", name |-> ""] }
    \cup { [kind |-> "file", name |-> n] :
              n \in {"/dev/stdin", "/dev/stdout", "/dev/stderr", "/data/f"} }

IsAnyFile(r) == r.kind = "file"

\* isReadAt: the reader is an *os.File whose name is none of the three.
isReadAt(r) ==
    /\ r.kind = "file"
    /\ ~\E i \in 1..Len(StdStreams) : StdStreams[i] = r.name

LegalHoldNeverInvalid == FALSE

\* The switch on minio.LegalHoldStatus(urls.TargetContent.LegalHold) takes
\* its default branch: the override is declared and is neither status.
LegalHoldInvalid ==
    /\ urls.TargetContent.LegalHold.enabled
    /\ urls.TargetContent.LegalHold.value \notin {"ON", "OFF"}

\* uploadSourceToTargetURL is called.
InitUpload ==
    /\ stored \in Layers("ss")
    /\ urls \in URLsFor(stored)
    /\ upc = "start" /\ metadata = <<>> /\ calls = <<>>
    /\ uerr = "none" /\ reader = "none" /\ failed = {}
    /\ readerType = [kind |-> "none", name |-> ""]
    /\ NoRm
    /\ DirIdle /\ KeysIdle

\* return urls.WithError(...): e is "nil" or the step that failed (the
\* validation of "retention" or "legalHold", newClientFromAlias for the
\* "sourceClient" or the "targetClient", or the backend call named).  The
\* deferred reader.Close() runs if the reader was obtained.
UpReturn(e) ==
    /\ upc' = "done" /\ uerr' = e
    /\ reader' = IF reader = "open" THEN "closed" ELSE reader

\* A step ends as r: "ok" or "nil" when it went through, its own name when
\* it failed.
Outcome(r) == failed' = IF r \in {"ok", "nil"} THEN failed ELSE failed \cup {r}

\* The retention and legal-hold overrides of the target are validated and
\* the source's metadata is collected.
UpEnter ==
    /\ upc = "start"
    /\ IF urls.TargetContent.Retention.enabled /\ ~urls.TargetContent.Retention.valid
       THEN UpReturn("retention") /\ Outcome("retention") /\ UNCHANGED metadata
       ELSE IF LegalHoldInvalid
       THEN UpReturn("legalHold") /\ Outcome("legalHold") /\ UNCHANGED metadata
       ELSE /\ metadata' = MergeSource
            /\ upc' = IF SameAlias \/ RetentionOnly THEN "merge" ELSE "get"
            /\ UNCHANGED <<uerr, reader, failed>>
    /\ UNCHANGED <<rm, pure, urls, stored, readerType, calls>>

\* Both branches, before Copy or PutObjectRetention: if no metadata was
\* collected, getAllMetadata stats the source; then the target's metadata
\* is merged in.
UpMerge ==
    /\ upc = "merge"
    /\ IF DOMAIN metadata = {}
       THEN \E r \in {"sourceClient", "Stat", "ok"} :
              /\ Outcome(r)
              /\ IF r = "sourceClient"
                 THEN UpReturn(r) /\ UNCHANGED <<metadata, calls>>
                 ELSE
                   /\ calls' = Append(calls, Call("Stat", <<>>, FALSE))
                   /\ IF r = "Stat"
                      THEN UpReturn(r) /\ UNCHANGED metadata
                      ELSE /\ metadata' = MergeTarget(getAllMetadata)
                           /\ upc' = IF RetentionOnly THEN "retain" ELSE "copy"
                           /\ UNCHANGED <<uerr, reader>>
       ELSE /\ metadata' = MergeTarget(metadata)
            /\ upc' = IF RetentionOnly THEN "retain" ELSE "copy"
            /\ UNCHANGED <<uerr, reader, calls, failed>>
    /\ UNCHANGED <<rm, pure, urls, stored, readerType>>

RetentionThenCopy == "copy"

\* return urls.WithError(...) follows putTargetRetention at once, whatever
\* its result.
AfterRetention == "done"

\* putTargetRetention, and the return of its result.
UpRetain ==
    /\ upc = "retain"
    /\ \E r \in {"targetClient", "PutObjectRetention", "nil"} :
          /\ Outcome(r)
          /\ uerr' = r /\ upc' = AfterRetention /\ UNCHANGED reader
          /\ calls' = IF r = "targetClient" THEN calls
                       ELSE Append(calls, Call("PutObjectRetention", <<>>, FALSE))
    /\ UNCHANGED <<rm, pure, urls, stored, readerType, metadata>>

\* copySourceToTargetURL with the filtered metadata.
UpCopy ==
    /\ upc = "copy"
    /\ \E r \in {"targetClient", "Copy", "nil"} :
          /\ UpReturn(r) /\ Outcome(r)
          /\ calls' = IF r = "targetClient" THEN calls
                       ELSE Append(calls,
                              Call("Copy", CopyMetadata(filterMetadata(metadata)), FALSE))
    /\ UNCHANGED <<rm, pure, urls, stored, readerType, metadata>>

\* getSourceStream: Get, then Stat for the metadata, then probeContentType
\* for a stream of unrecognised type that is not a *minio.Object.  When Stat or the probe
\* fails the reader is dropped without being closed.
UpGet ==
    /\ upc = "get"
    /\ \E r \in {"sourceClient", "Get", "Stat", "probeContentType", "ok"} :
        /\ Outcome(r)
        /\ IF r = "sourceClient"
          THEN UpReturn(r) /\ UNCHANGED <<metadata, calls, readerType>>
          ELSE IF r = "Get"
          THEN /\ UpReturn(r) /\ UNCHANGED <<metadata, readerType>>
               /\ calls' = Append(calls, Call("Get", <<>>, FALSE))
          ELSE /\ calls' = calls \o <<Call("Get", <<>>, FALSE), Call("Stat", <<>>, FALSE)>>
               /\ reader' = "open"
               /\ readerType' \in Readers
               /\ r = "probeContentType" => readerType'.kind = "file"
               /\ IF r \in {"Stat", "probeContentType"}
                  THEN upc' = "done" /\ uerr' = r /\ UNCHANGED metadata
                  ELSE upc' = "put" /\ metadata' = StreamMetadata /\ UNCHANGED uerr
    /\ UNCHANGED <<rm, pure, urls, stored>>

\* The target's metadata is merged in and putTargetStream is called, with the
\* reader itself if isReadAt, bounded to the length otherwise.
UpPut ==
    /\ upc = "put"
    /\ metadata' = MergeTarget(metadata)
    /\ \E r \in {"targetClient", "Put", "nil"} :
          /\ UpReturn(r) /\ Outcome(r)
          /\ calls' = IF r = "targetClient" THEN calls
                       ELSE Append(calls,
                              Call("Put", PutMetadata(filterMetadata(metadata')), ~isReadAt(readerType)))
    /\ UNCHANGED <<rm, pure, urls, stored, readerType>>

NextUpload == UpEnter \/ UpMerge \/ UpRetain \/ UpCopy \/ UpGet \/ UpPut

SpecUpload == InitUpload /\ [][NextUpload]_vars

----------------------------------------------------------------------------
(* Properties *)

Range(s) == { s[i] : i \in 1..Len(s) }

Occurrences(s, x) == Cardinality({ i \in 1..Len(s) : s[i] = x })

IsPrefix(s, t) == Len(s) <= Len(t) /\ SubSeq(t, 1, Len(s)) = s

\* The entries the listing loop has taken from the listing so far.
Delivered == SubSeq(runList, 1, listIdx - 1)

\* A delivered entry that removeRecursive reports and feeds: a descriptor
\* with a timestamp that passes both age tests.
Survives(e) == e.err = "none" /\ e.age # NoTime /\ ~SkipByAge(e.age)

SurvivorIds(s) == { s[i].id : i \in { j \in 1..Len(s) : Survives(s[j]) } }

\* Position of a descriptor in the listing of this run.
PosOf(id) == CHOOSE k \in 1..Len(runList) : runList[k].id = id

Recursive == op = "recursive"

\* This step of removeRecursive handles a failure of the given class: an
\* in-band listing failure, or one received from errorCh while feeding or
\* while draining.
HandlesFailure(class) ==
    /\ Recursive
    /\ \/ /\ pc = "list" /\ listIdx' = listIdx + 1
          /\ runList[listIdx].err = class
       \/ /\ pc \in {"feed", "drain"} /\ rm_pc = "emit" /\ rm_pc' # "emit"
          /\ Head(rmQueue) = class

\* C1: a permission failure (in-band, received while feeding, or received in
\* the final drain) never makes removeRecursive return or close the feed
\* channel, and every surviving object listed in a run that met no other
\* failure has been fed; a failure of any other class makes removeRecursive
\* return the error exit status in that very step.
C1_PermissionNeverAborts ==
    [][ /\ HandlesFailure("perm") =>
            /\ pc' # "done" /\ chCloses' = chCloses /\ pending' = pending
        /\ HandlesFailure("other") => (pc' = "done" /\ result' = "err")
        /\ (Recursive /\ pc' = "done" /\ pc # "done" /\ ~otherSeen' /\ ~isFake /\ chMade)
              => SurvivorIds(Delivered) \subseteq Range(sent')
      ]_vars

\* A run that met a permission failure on its first entry - in-band, or from
\* the backend for the first object fed - and still fed a later object and
\* returned nil.
C1_Witness ==
    /\ Recursive /\ pc = "done" /\ result = "ok" /\ ~isFake
    /\ Len(runList) >= 2
    /\ \/ runList[1].err = "perm"
       \/ (runList[1].id \in Range(sent) /\ runList[1].id \notin deleted)
    /\ runList[2].id \in Range(sent)

\* C2: whenever removeRecursive has returned after starting the backend
\* Remove, the feed channel is closed and the failure channel has been
\* drained until the removal task closed it.
C2_DrainedBeforeReturn ==
    (Recursive /\ pc = "done" /\ chMade) => (chCloses >= 1 /\ rm_pc = "closed")

\* C3: the feed channel of removeRecursive and removeSingle is closed exactly
\* once: never closed twice, never sent on after the close, and closed when
\* the function has returned after creating it.
C3_ClosedExactlyOnce ==
    /\ chCloses <= 1
    /\ ~chSendClosed
    /\ (pc = "done" /\ chMade) => chCloses = 1

\* removeRecursive returned through an abort path, after feeding something.
C3_Witness ==
    /\ Recursive /\ pc = "done" /\ result = "err" /\ chMade /\ chCloses = 1
    /\ sent # <<>>

\* C4: no task is left blocked: the feed loop can always take the failure a
\* blocked removal task is emitting, and once removeRecursive has returned
\* the removal task is not blocked sending on the failure channel.
C4_NoTaskLeftBlocked ==
    /\ (pc = "feed" /\ rm_pc = "emit") => ENABLED RRFeedErr
    /\ (Recursive /\ pc = "done") => rm_pc # "emit"

\* C5: in a real recursive run that met no failure other than permission
\* failures, no descriptor is on the feed channel twice, and every delivered
\* descriptor with a timestamp that passes the age tests has been sent once
\* or is the one the select is still trying to send; at the return each has
\* been sent exactly once.
C5_ExactlyOnce ==
    (Recursive /\ ~isFake /\ chMade /\ ~otherSeen) =>
        /\ \A id \in Range(sent) : Occurrences(sent, id) = 1
        /\ Range(sent) \subseteq SurvivorIds(Delivered)
        /\ \A id \in SurvivorIds(Delivered) :
              Occurrences(sent, id) + (IF pending = id THEN 1 ELSE 0) = 1
        /\ pc = "done" => pending = 0

\* A run that returned nil after a permission failure arrived while a send
\* was pending, with that descriptor sent all the same.
C5_Witness ==
    /\ Recursive /\ ~isFake /\ pc = "done" /\ result = "ok"
    /\ retried # {}
    /\ retried \subseteq Range(sent)

\* C6: descriptors reach the feed channel in the order of the listing.
C6_ListingOrder ==
    Recursive =>
        \A i, j \in 1..Len(sent) : i < j => PosOf(sent[i]) < PosOf(sent[j])

C6_Witness == Recursive /\ Len(sent) >= 2

\* C7: once the context is cancelled the listing delivers nothing more, no
\* descriptor is handed to the feed channel, and the feed channel is closed
\* when removeRecursive returns.
C7_NothingAfterCancel ==
    [][ (Recursive /\ ctxCancelled) =>
            /\ listIdx' = listIdx
            /\ sent' = sent
            /\ (pc' = "done" /\ chMade) => chCloses' >= 1
      ]_vars

\* C8: a dry run, single or recursive, hands nothing to the backend Remove
\* and leaves the backend state as it was.
C8_FakeRemovesNothing ==
    [][ (isFake \/ isFake') =>
            (sent' = <<>> /\ chBuf' = <<>> /\ rmQueue' = <<>> /\ deleted' = deleted)
      ]_vars

C8_Witness == isFake /\ pc = "done" /\ Recursive /\ Len(reported) >= 2

\* The second invocation is a recursive removal that follows a recursive dry
\* run of the same listing with the same flags.
AfterFakeRecursive ==
    /\ phase = "second" /\ prevReport.op = "recursive"
    /\ Recursive /\ pc = "done" /\ ~ctxCancelled

AgeOf(id) == listing[id].age

\* A real run that went through its whole listing and returned nil.
CompletedReal ==
    /\ pc = "done" /\ result = "ok" /\ ~isFake /\ ~ctxCancelled

NoFailure ==
    /\ clientOK
    /\ \A i \in 1..Len(runList) : runList[i].err = "none"
    /\ Range(sent) \subseteq deleted

\* The listed entries an older-than cutoff lets through: those with a
\* timestamp whose age exceeds the cutoff, and the one whose age is the
\* cutoff itself when isOlder does not filter the boundary.
OlderThanCutoff ==
    { runList[i].id : i \in { j \in 1..Len(runList) :
          /\ runList[j].age # NoTime
          /\ \/ runList[j].age > olderThan
             \/ (runList[j].age = olderThan /\ ~tieSkip) } }

RemoveCalled == chMade \/ rm_pc # "idle" \/ sent # <<>> \/ chBuf # <<>>

\* C14: when the stat of removeSingle yields no content, removeSingle has
\* returned: the error exit status without --force, nil with it; it has
\* reported nothing, and the backend Remove is not called.
C14_AbsentTarget ==
    (op = "single" /\ statKind = "absent") =>
        /\ pc = "done"
        /\ ~isForce => result = "err"
        /\ isForce => result = "ok"
        /\ ~RemoveCalled /\ reported = <<>>

\* A real removeSingle with --force has found nothing to remove and has
\* returned nil.
C14_Witness ==
    /\ op = "single" /\ statKind = "absent" /\ pc = "done" /\ ~isFake
    /\ isForce /\ result = "ok"

ObjectFailed == Range(sent) \ deleted # {}

\* C16: when the removal of an object has failed, whatever the class of
\* the failure, the function mainRm called for the target returns the error
\* exit status - which mainRm keeps as its own status - and every listed
\* object that passes the filters has been handed to the backend.
C16_FailureIsReported ==
    (pc = "done" /\ ~isFake /\ ~ctxCancelled /\ ObjectFailed) =>
        /\ result = "err"
        /\ SurvivorIds(runList) \subseteq Range(sent)

\* checkRmSyntax has ended the process: fatalIf, or the help exit that an
\* empty argument list without --stdin gets.
Rejected == mpc = "fatal" \/ (mpc = "help" /\ args = <<>>)

\* C12: with --recursive or --stdin and without --force, mainRm is ended by
\* checkRmSyntax, whatever the arguments, and neither removeSingle nor
\* removeRecursive is ever called.
C12_ForceRequired ==
    ((isRecursive \/ isStdin) /\ ~isForce) =>
        /\ started = <<>>
        /\ mpc # "check" => Rejected

\* --stdin without --force, with an object on the command line and another
\* on stdin: rejected.
C12_Witness ==
    /\ isStdin /\ ~isRecursive /\ ~isForce
    /\ args # <<>> /\ ~TargetIsDir(Clean(args[1]))
    /\ stdinLines # <<>>
    /\ mpc = "fatal"

\* C13: a recursive or batch-input removal without --dangerous, one of
\* whose targets - any argument, any line of stdin - is a whole namespace,
\* is ended by checkRmSyntax, and nothing is ever removed or listed.
C13_NamespaceNeedsDangerous ==
    ( /\ isRecursive \/ isStdin
      /\ ~isDangerous
      /\ \/ \E i \in 1..Len(args) : IsNamespace(args[i])
         \/ \E i \in 1..Len(stdinLines) : IsNamespace(stdinLines[i]) ) =>
        /\ started = <<>>
        /\ mpc # "check" => Rejected

\* How many calls of the given name were issued.
Count(name) == Cardinality({ i \in 1..Len(calls) : calls[i].op = name })

\* uploadSourceToTargetURL has returned, and not from the validation of the
\* target's retention and legal-hold arguments.
ReturnedValidated == upc = "done" /\ uerr \notin {"retention", "legalHold"}

\* C17 as stated: no Get when the two aliases are the same, and a Get
\* whenever they differ.
C17_GetIffCrossAlias ==
    /\ urls.SourceAlias = urls.TargetAlias => Count("Get") = 0
    /\ (upc = "done" /\ urls.SourceAlias # urls.TargetAlias) => Count("Get") >= 1

\* C17 amended: no Get when the two aliases are the same.  When they differ
\* there is at most one Get, and uploadSourceToTargetURL returns without
\* one exactly when the validation fails, when the source has retention
\* enabled (the retention of the target is set instead), or when no client
\* can be made for the source.
C17_GetOnStreamCopy ==
    /\ urls.SourceAlias = urls.TargetAlias => Count("Get") = 0
    /\ Count("Get") <= 1
    /\ (upc = "done" /\ urls.SourceAlias # urls.TargetAlias) =>
          ( Count("Get") = 0 <=>
              \/ uerr \in {"retention", "legalHold", "sourceClient"}
              \/ urls.SourceContent.RetentionEnabled )
    /\ (upc = "done" /\ urls.SourceAlias # urls.TargetAlias
          /\ urls.SourceContent.RetentionEnabled /\ uerr = "nil") =>
          Count("PutObjectRetention") = 1

\* A stream copy between two aliases went through: one Get, one Put.
C17_Witness ==
    /\ upc = "done" /\ uerr = "nil" /\ urls.SourceAlias # urls.TargetAlias
    /\ Count("Get") = 1 /\ Count("Put") = 1

\* C18 as stated: with one alias on both sides and valid arguments, there
\* is one Copy and no Get or Put, or, for a source with retention enabled,
\* one PutObjectRetention and no Copy.
C18_OneCopy ==
    (ReturnedValidated /\ urls.SourceAlias = urls.TargetAlias) =>
        /\ Count("Get") = 0 /\ Count("Put") = 0
        /\ \/ (Count("Copy") = 1 /\ Count("PutObjectRetention") = 0)
           \/ /\ urls.SourceContent.RetentionEnabled
              /\ Count("PutObjectRetention") = 1 /\ Count("Copy") = 0

\* C18 amended: with one alias on both sides there is never a Get or a Put,
\* never a Copy for a source with retention enabled and never a
\* PutObjectRetention for another, and never two of them; after valid
\* arguments there is exactly one unless the Stat that getAllMetadata needs
\* fails or a client cannot be made.
C18_OneCopyUnlessFailed ==
    urls.SourceAlias = urls.TargetAlias =>
        /\ Count("Get") = 0 /\ Count("Put") = 0
        /\ Count("Copy") + Count("PutObjectRetention") <= 1
        /\ urls.SourceContent.RetentionEnabled => Count("Copy") = 0
        /\ ~urls.SourceContent.RetentionEnabled => Count("PutObjectRetention") = 0
        /\ ReturnedValidated =>
              ( Count("Copy") + Count("PutObjectRetention") = 1 <=>
                  uerr \notin {"sourceClient", "Stat", "targetClient"} )

\* A copy within one alias went through with one Copy, after the Stat of
\* getAllMetadata.
C18_Witness ==
    /\ upc = "done" /\ uerr = "nil" /\ urls.SourceAlias = urls.TargetAlias
    /\ Count("Copy") = 1 /\ Count("Stat") = 1

\* A layer defines the canonical key c.
Defines(layer, c) == \E k \in DOMAIN layer : CanonicalHeaderKey(k) = c

\* The layer of the highest precedence that defines c.
Highest(c) ==
    IF Defines(urls.TargetContent.UserMetadata, c) THEN "tu"
    ELSE IF Defines(urls.TargetContent.Metadata, c) THEN "ts"
    ELSE IF Defines(urls.SourceContent.UserMetadata, c) THEN "su"
    ELSE "ss"

\* C19: every entry of the metadata given to Copy or Put, the lock headers
\* aside, has the value of the highest layer that defines its key, in the
\* order source stored < source user < target stored < target user.
C19_Precedence ==
    \A i \in 1..Len(calls) :
        calls[i].op \in {"Copy", "Put"} =>
            \A k \in DOMAIN calls[i].md \ LockKeys :
                calls[i].md[k].from = Highest(CanonicalHeaderKey(k))

\* The key in lower case.
Folded(k) == [i \in 1..Len(k) |-> ToLower(k[i])]

\* C20: the metadata given to Copy or Put has no key that starts with the
\* encryption prefix, whatever the case of its letters, and no entry that is
\* not a valid header field.
C20_Filtered ==
    \A i \in 1..Len(calls) :
        calls[i].op \in {"Copy", "Put"} =>
            \A k \in DOMAIN calls[i].md :
                /\ ~HasPrefix(Folded(k), Folded(serverEncryptionKeyPrefix))
                /\ ValidHeaderFieldName(k)
                /\ ValidHeaderFieldValue(calls[i].md[k])

\* A Copy was issued although the target's user metadata holds a key with
\* the encryption prefix and its stored metadata a bad value: both were
\* dropped, the lock headers are all that is left.
C20_Witness ==
    /\ upc = "done" /\ Count("Copy") = 1
    /\ KeySSE \in DOMAIN urls.TargetContent.UserMetadata
    /\ KeyUser \in DOMAIN urls.TargetContent.Metadata
    /\ ~urls.TargetContent.Metadata[KeyUser].ok
    /\ \A i \in 1..Len(calls) :
          calls[i].op = "Copy" => DOMAIN calls[i].md = LockKeys

\* C21: when the target declares a legal-hold override that is neither of the
\* two statuses, uploadSourceToTargetURL issues no backend call at any point
\* and returns the error of the argument validation: the legal-hold one,
\* unless the validation of the retention override, which comes first, has
\* already failed.
C21_BadLegalHold ==
    ( /\ urls.TargetContent.LegalHold.enabled
      /\ urls.TargetContent.LegalHold.value \notin {"ON", "OFF"} ) =>
        /\ calls = <<>>
        /\ upc \in {"start", "done"}
        /\ upc = "done" =>
              /\ uerr \in {"retention", "legalHold"}
              /\ uerr = "retention" <=>
                    ( /\ urls.TargetContent.Retention.enabled
                      /\ ~urls.TargetContent.Retention.valid )

\* A legal-hold override of another value was rejected, next to a valid
\* retention override.
C21_Witness ==
    /\ upc = "done" /\ uerr = "legalHold" /\ calls = <<>>
    /\ urls.TargetContent.LegalHold.value = "bogus"
    /\ urls.TargetContent.Retention.enabled

\* C22: on the retention-update path (the source has retention enabled) of
\* either branch no Copy, Get or Put is ever issued and the
\* PutObjectRetention is the last backend call; once it has failed the
\* function has returned with that failure.  In general the result carries
\* an error exactly when a step failed, and the error is that step's.
C22_RetentionFailureReturned ==
    /\ urls.SourceContent.RetentionEnabled =>
          Count("Copy") = 0 /\ Count("Get") = 0 /\ Count("Put") = 0
    /\ \A i \in 1..Len(calls) :
          calls[i].op = "PutObjectRetention" => i = Len(calls)
    /\ "PutObjectRetention" \in failed =>
          upc = "done" /\ uerr = "PutObjectRetention"
    /\ upc = "done" =>
          /\ uerr # "nil" <=> failed # {}
          /\ failed \subseteq {uerr}

\* The retention update failed between two aliases and the failure was
\* returned after a Stat and the PutObjectRetention alone.
C22_Witness ==
    /\ upc = "done" /\ uerr = "PutObjectRetention"
    /\ urls.SourceAlias # urls.TargetAlias
    /\ Count("PutObjectRetention") = 1 /\ Count("Stat") = 1

\* C23: every Put is handed the source reader itself exactly when that
\* reader is a file other than the standard input, output and error streams
\* of the process; in every other case it is handed the reader bounded to
\* the declared length.
C23_FullReaderOnlyForFiles ==
    \A i \in 1..Len(calls) :
        calls[i].op = "Put" =>
            ( ~calls[i].limited <=>
                /\ readerType.kind = "file"
                /\ readerType.name \notin
                      {"/dev/stdin", "/dev/stdout", "/dev/stderr"} )

\* A Put was handed the bounded reader because the source is the standard
\* input.
C23_Witness ==
    /\ upc = "done" /\ readerType = [kind |-> "file", name |-> "/dev/stdin"]
    /\ \E i \in 1..Len(calls) : calls[i].op = "Put" /\ calls[i].limited

\* The path segments of an address: the names its separators delimit.
Segments(address) ==
    LET fields == Split(address, "/")
    IN Cardinality({ i \in 1..Len(fields) : fields[i] # <<>> })

\* C24: isAliasURLDir equals the three-tier reference: the directory bit of
\* the stat if it succeeds; else, for a filesystem address, whether it ends
\* with the separator; else false for the alias alone (at most one
\* segment), true for alias/bucket (two segments), and with three or more
\* segments whether it ends with the separator.
C24_ThreeTiers ==
    dpc = "done" =>
        isDir = ( IF urlStat # "none" THEN urlStat = "dir"
                  ELSE IF ~expands THEN HasSuffix(aliasURL, <<"/">>)
                  ELSE IF Segments(aliasURL) <= 1 THEN FALSE
                  ELSE IF Segments(aliasURL) = 2 THEN TRUE
                  ELSE HasSuffix(aliasURL, <<"/">>) )

\* The user wrote a key of 32 bytes, as it is or in base64.
Acceptable(e) == e.form \in {"literal", "base64"} /\ Len(e.key) = KeySize

\* The text t occurs in the string s.
Contains(s, t) ==
    \E i \in 1..(Len(s) - Len(t) + 1) : SubSeq(s, i, i + Len(t) - 1) = t

\* The trace of the error carries the text.
Identifies(err, text) ==
    \E k \in 1..Len(err.fields) : Contains(err.fields[k], text)

\* C25: a key list is accepted only if every entry is prefix=key with a key
\* of 32 bytes, literal or in base64; a list with another entry yields no
\* result, not even a partial one, and an error that identifies an entry
\* at fault.
C25_OnlyValidKeys ==
    kpc = "done" =>
        /\ kerr = Nil => \A i \in 1..Len(entries) : Acceptable(entries[i])
        /\ (\E i \in 1..Len(entries) : ~Acceptable(entries[i])) =>
              /\ kerr # Nil /\ keyString = <<>>
              /\ \E i \in 1..Len(entries) :
                    /\ ~Acceptable(entries[i])
                    /\ Identifies(kerr, Written(entries[i]))

\* C26: a list of acceptable entries is decoded to the list of the same
\* entries with their keys written literally, whichever way each key was
\* written, and has as many entries after getDecodedKey as before.
C26_RoundTrip ==
    (kpc = "done" /\ \A i \in 1..Len(entries) : Acceptable(entries[i])) =>
        /\ kerr = Nil
        /\ keyString =
              Joined([i \in 1..Len(entries) |->
                        entries[i].prefix \o <<Equals>> \o entries[i].key])
        /\ Len(Split(keyString, Comma)) = Len(entries)

\* C27: mainRm calls the removal for its targets in order, the arguments
\* first and then, with --stdin, the lines of stdin; when it returns every
\* target has been attempted, whatever the earlier ones returned; and the
\* status it holds is an error exactly when a call so far has returned one,
\* the first of them being kept.
C27_EveryTargetInOrder ==
    /\ \A i \in 1..Len(started) : started[i].url = (args \o stdinLines)[i]
    /\ mpc = "args" => Len(started) = nextArg - 1
    /\ mpc = "stdin" => Len(started) = Len(args) + nextArg - 1
    /\ mpc = "exit" => Len(started) = Len(args) + Len(stdinLines)
    /\ rerr = "err" <=> \E i \in 1..Len(started) : started[i].e = "err"

\* The argument failed, the line of stdin after it was removed all the
\* same, and mainRm returns the error.
C27_Witness ==
    /\ mpc = "exit" /\ isStdin /\ Len(started) = 2
    /\ started[1].e = "err" /\ started[2].e = "ok"
    /\ started[2].url = stdinLines[1]
    /\ rerr = "err"

\* C28: in removeRecursive an entry of the listing without a timestamp is
\* never reported and never handed to contentCh, nor waiting to be, with
\* or without --older-than and --newer-than.
C28_PrefixLevelsSkipped ==
    op = "recursive" =>
        \A i \in 1..Len(runList) :
            (runList[i].err = "none" /\ runList[i].age = NoTime) =>
                /\ runList[i].id \notin Range(reported)
                /\ runList[i].id \notin Range(sent)
                /\ pending # runList[i].id

\* Without any age filter, a recursive removal went past a prefix level
\* and removed the object listed after it.
C28_Witness ==
    /\ op = "recursive" /\ ~isFake /\ pc = "done" /\ result = "ok"
    /\ olderThan = Unset /\ newerThan = Unset
    /\ Len(runList) = 2
    /\ runList[1].err = "none" /\ runList[1].age = NoTime
    /\ runList[2].err = "none" /\ runList[2].age # NoTime
    /\ sent = <<runList[2].id>>

\* C29: with a client for the target, removeRecursive returns the error
\* status only in a step in which the listing delivers, or the removal
\* task emits, a failure that is not a permission failure; a receive from
\* the closed errorCh in the feed loop, which yields no failure, is not
\* such a step.
C29_ErrorOnlyOnFailure ==
    [][ ( /\ clientOK /\ op = "recursive"
          /\ pc # "done" /\ pc' = "done" /\ result' = "err" ) =>
            \/ pc = "list" /\ ~ListClosed /\ runList[listIdx].err = "other"
            \/ /\ pc \in {"feed", "drain"}
               /\ rm_pc = "emit" /\ Head(rmQueue) = "other" ]_vars

\* C30: the metadata handed to Copy and to Put holds the lock-mode and the
\* retain-until-date key only when the target declares a retention
\* override, and the legal-hold key only when it declares a legal-hold
\* override; with neither override it holds none of the three.
C30_LockKeysOnlyWhenDeclared ==
    \A i \in 1..Len(calls) :
        calls[i].op \in {"Copy", "Put"} =>
            /\ AmzObjectLockMode \in DOMAIN calls[i].md =>
                  urls.TargetContent.Retention.enabled
            /\ AmzObjectLockRetainUntilDate \in DOMAIN calls[i].md =>
                  urls.TargetContent.Retention.enabled
            /\ AmzObjectLockLegalHold \in DOMAIN calls[i].md =>
                  urls.TargetContent.LegalHold.enabled

\* C31: a source reader that Get opened is closed by the time the transfer
\* has returned, on every path, the failure of the stat or of the
\* content-type probe inside getSourceStream included.
C31_ReaderClosedOnReturn ==
    upc = "done" => reader # "open"

\* C32: without --recursive, an argument list one of whose targets, at any
\* position, is a directory for checkRmSyntax is ended by fatalIf in
\* checkRmSyntax, and no removal is ever started, so that removeSingle is
\* never called for a directory.
C32_DirectoryNeedsRecursive ==
    ( /\ ~isRecursive
      /\ \E i \in 1..Len(args) : TargetIsDir(Clean(args[i])) ) =>
        /\ started = <<>>
        /\ mpc # "check" => mpc = "fatal"

====
